---- MODULE Spec2Model ----
(***************************************************************************)
(* Model of runtime/libtestergame.cpp: the SFML-independent test runtime.  *)
(* main() calls global_create once, then runs global_step / global_draw    *)
(* cycles until game_ended is set or max_steps cycles have run.  The three *)
(* hooks are external game logic: while one of them runs it may call any   *)
(* of the exported functions any number of times, in any order.            *)
(* print_float is left out: "%f" needs floating point values.              *)
(***************************************************************************)
EXTENDS Integers, Sequences, FiniteSets, TLC

VARIABLES
    pc,          \* position of main: "main", "create", "test", "step", "draw", "exit"
    game_ended,  \* static bool game_ended
    num_steps,   \* int num_steps (local of main)
    status,      \* <<>> while main runs, <<v>> once main has returned v
    out,         \* stdout: the sequence of strings written
    err,         \* stderr: the sequence of strings written
    ret,         \* what the last value-returning call gave the running hook
    creates,     \* history: invocations of global_create
    steps,       \* history: invocations of global_step
    draws,       \* history: invocations of global_draw
    first_end,   \* history: hook and cycle of the first end_game call
    end_calls    \* history: number of end_game calls

vars == <<pc, game_ended, num_steps, status, out, err, ret,
          creates, steps, draws, first_end, end_calls>>

driver == <<pc, game_ended, num_steps, status, err, creates, steps, draws,
            first_end, end_calls>>

----------------------------------------------------------------------------
(* Program constants *)

max_steps == 1000

NULL == 0

Diagnostic ==
    "FAILURE: Exceed max number of steps allowed for test. Did you forget to call end_game()?\n"

----------------------------------------------------------------------------
(* Bounds of the model and the inputs the hooks draw from *)

MaxOut == 1

MaxEndCalls == 2

Filenames == {"", "a.wav"}

Handles == {NULL, 1}

KeyCodes == {-1, 0, 2147483647}

PrintInts == {-12}

PrintStrs == {"hi"}

Coords == {0, 3}

HookPcs == {"create", "step", "draw"}

NoRet == [op |-> "none", val |-> FALSE]

NoEnd == [hook |-> "none", cycle |-> 0]

----------------------------------------------------------------------------
(* printf conversions *)

Digit(d) ==
    CASE d = 0 -> "0" [] d = 1 -> "1" [] d = 2 -> "2" [] d = 3 -> "3"
      [] d = 4 -> "4" [] d = 5 -> "5" [] d = 6 -> "6" [] d = 7 -> "7"
      [] d = 8 -> "8" [] d = 9 -> "9"

RECURSIVE Dec(_)
Dec(n) == IF n < 10 THEN Digit(n) ELSE Dec(n \div 10) \o Digit(n % 10)

\* "%d\n"
FormatInt(x) == (IF x < 0 THEN "-" \o Dec(-x) ELSE Dec(x)) \o "\n"

\* "true\n" / "false\n"
FormatBool(x) == IF x THEN "true\n" ELSE "false\n"

\* "%s\n"
FormatStr(x) == x \o "\n"

----------------------------------------------------------------------------
(* The exported functions, called by a running hook *)

InHook == pc \in HookPcs

print ==
    /\ InHook
    /\ Len(out) < MaxOut
    /\ \E x \in PrintInts : out' = Append(out, FormatInt(x))
    /\ UNCHANGED <<driver, ret>>

printb ==
    /\ InHook
    /\ Len(out) < MaxOut
    /\ \E x \in BOOLEAN : out' = Append(out, FormatBool(x))
    /\ UNCHANGED <<driver, ret>>

printstr ==
    /\ InHook
    /\ Len(out) < MaxOut
    /\ \E x \in PrintStrs : out' = Append(out, FormatStr(x))
    /\ UNCHANGED <<driver, ret>>

\* a loader that hands out a handle for a non-empty file name
load_sound_nonnull(filename) == IF filename = "" THEN NULL ELSE 1

load_sound_result(filename) == NULL

load_sound ==
    /\ InHook
    /\ \E f \in Filenames :
          ret' = [op |-> "load_sound", val |-> load_sound_result(f)]
    /\ UNCHANGED <<driver, out>>

play_sound ==
    /\ InHook
    /\ \E sound \in Handles : UNCHANGED vars

loop_sound ==
    /\ InHook
    /\ \E sound \in Handles : UNCHANGED vars

load_image_result(filename) == NULL

load_image ==
    /\ InHook
    /\ \E f \in Filenames :
          ret' = [op |-> "load_image", val |-> load_image_result(f)]
    /\ UNCHANGED <<driver, out>>

set_sprite_position ==
    /\ InHook
    /\ \E s \in Handles, x \in Coords, y \in Coords : UNCHANGED vars

draw_sprite ==
    /\ InHook
    /\ \E sprite \in Handles : UNCHANGED vars

end_game ==
    /\ InHook
    /\ end_calls < MaxEndCalls
    /\ game_ended' = TRUE
    /\ end_calls' = end_calls + 1
    /\ first_end' = IF end_calls = 0 THEN [hook |-> pc, cycle |-> steps]
                                     ELSE first_end
    /\ UNCHANGED <<pc, num_steps, status, out, err, ret, creates, steps, draws>>

\* an input stub that reports positive key codes as pressed
key_pressed_positive(code) == code > 0

key_pressed_result(code) == FALSE

key_pressed ==
    /\ InHook
    /\ \E code \in KeyCodes :
          ret' = [op |-> "key_pressed", val |-> key_pressed_result(code)]
    /\ UNCHANGED <<driver, out>>

----------------------------------------------------------------------------
(* main *)

\* line 30: global_create();
CallCreate ==
    /\ pc = "main"
    /\ pc' = "create"
    /\ creates' = creates + 1
    /\ UNCHANGED <<game_ended, num_steps, status, out, err, ret, steps, draws,
                   first_end, end_calls>>

\* the flag initialised in main, after the create hook, instead of statically
ReturnCreateClearsFlag ==
    /\ pc = "create"
    /\ num_steps' = 0
    /\ game_ended' = FALSE
    /\ pc' = "test"
    /\ ret' = NoRet
    /\ UNCHANGED <<status, out, err, creates, steps, draws, first_end, end_calls>>

\* global_create returns; line 32: int num_steps = 0;
ReturnCreate ==
    /\ pc = "create"
    /\ num_steps' = 0
    /\ pc' = "test"
    /\ ret' = NoRet
    /\ UNCHANGED <<game_ended, status, out, err, creates, steps, draws,
                   first_end, end_calls>>

\* a loop that never looks at the flag
LoopConditionIgnoresFlag == TRUE

\* a do-while loop: the first iteration runs before the flag is looked at
LoopConditionDoWhile == ~game_ended \/ num_steps = 0

\* line 33: while (!game_ended)
LoopCondition == ~game_ended

\* lines 33-34: the loop test succeeds; global_step();
LoopEnter ==
    /\ pc = "test"
    /\ LoopCondition
    /\ pc' = "step"
    /\ steps' = steps + 1
    /\ UNCHANGED <<game_ended, num_steps, status, out, err, ret, creates, draws,
                   first_end, end_calls>>

\* lines 33, 44: the loop test fails; return 0;
LoopExit ==
    /\ pc = "test"
    /\ ~LoopCondition
    /\ pc' = "exit"
    /\ status' = <<0>>
    /\ UNCHANGED <<game_ended, num_steps, out, err, ret, creates, steps, draws,
                   first_end, end_calls>>

\* the call of global_draw left out of the loop body: from the return of
\* global_step straight to ++num_steps and the ceiling test
ReturnStepNoDraw ==
    /\ pc = "step"
    /\ num_steps' = num_steps + 1
    /\ ret' = NoRet
    /\ IF num_steps' >= max_steps
          THEN /\ err' = Append(err, Diagnostic)
               /\ status' = <<1>>
               /\ pc' = "exit"
          ELSE /\ pc' = "test"
               /\ UNCHANGED <<err, status>>
    /\ UNCHANGED <<game_ended, out, creates, steps, draws, first_end, end_calls>>

\* a loop body that breaks out right after global_step once the flag is set
ReturnStepBreaks ==
    /\ pc = "step"
    /\ ret' = NoRet
    /\ IF game_ended
          THEN /\ pc' = "exit"
               /\ status' = <<0>>
               /\ UNCHANGED draws
          ELSE /\ pc' = "draw"
               /\ draws' = draws + 1
               /\ UNCHANGED status
    /\ UNCHANGED <<game_ended, num_steps, out, err, creates, steps,
                   first_end, end_calls>>

\* global_step returns; line 35: global_draw();
ReturnStep ==
    /\ pc = "step"
    /\ pc' = "draw"
    /\ draws' = draws + 1
    /\ ret' = NoRet
    /\ UNCHANGED <<game_ended, num_steps, status, out, err, creates, steps,
                   first_end, end_calls>>

\* the ceiling test off by one
CeilingExceeded(n) == n > max_steps

\* line 37: if (num_steps >= max_steps)
CeilingReached(n) == n >= max_steps

\* the failure exit without its fprintf
ReturnDrawSilent ==
    /\ pc = "draw"
    /\ num_steps' = num_steps + 1
    /\ ret' = NoRet
    /\ IF CeilingReached(num_steps')
          THEN /\ status' = <<1>>
               /\ pc' = "exit"
          ELSE /\ pc' = "test"
               /\ UNCHANGED status
    /\ UNCHANGED <<game_ended, out, err, creates, steps, draws, first_end, end_calls>>

\* global_draw returns; lines 36-41: ++num_steps; the ceiling test, and
\* either the diagnostic and return 1, or back to the loop test.
ReturnDraw ==
    /\ pc = "draw"
    /\ num_steps' = num_steps + 1
    /\ ret' = NoRet
    /\ IF CeilingReached(num_steps')
          THEN /\ err' = Append(err, Diagnostic)
               /\ status' = <<1>>
               /\ pc' = "exit"
          ELSE /\ pc' = "test"
               /\ UNCHANGED <<err, status>>
    /\ UNCHANGED <<game_ended, out, creates, steps, draws, first_end, end_calls>>

----------------------------------------------------------------------------

Init ==
    /\ pc = "main"
    /\ game_ended = FALSE
    /\ num_steps = 0
    /\ status = <<>>
    /\ out = <<>>
    /\ err = <<>>
    /\ ret = NoRet
    /\ creates = 0
    /\ steps = 0
    /\ draws = 0
    /\ first_end = NoEnd
    /\ end_calls = 0

Next ==
    \/ CallCreate
    \/ ReturnCreate
    \/ LoopEnter
    \/ LoopExit
    \/ ReturnStep
    \/ ReturnDraw
    \/ print
    \/ printb
    \/ printstr
    \/ load_sound
    \/ play_sound
    \/ loop_sound
    \/ load_image
    \/ set_sprite_position
    \/ draw_sprite
    \/ end_game
    \/ key_pressed

Spec == Init /\ [][Next]_vars

\* main runs to completion and every hook returns to it.
FairSpec ==
    /\ Spec
    /\ WF_vars(CallCreate)
    /\ WF_vars(ReturnCreate)
    /\ WF_vars(LoopEnter)
    /\ WF_vars(LoopExit)
    /\ WF_vars(ReturnStep)
    /\ WF_vars(ReturnDraw)

----------------------------------------------------------------------------
(* Properties *)

TypeOK ==
    /\ pc \in {"main", "create", "test", "step", "draw", "exit"}
    /\ game_ended \in BOOLEAN
    /\ num_steps \in 0..max_steps
    /\ status \in {<<>>, <<0>>, <<1>>}
    /\ Len(out) <= MaxOut
    /\ Len(err) <= 1
    /\ end_calls \in 0..MaxEndCalls

\* C1: main returns status 1 only in a state where the completion flag is
\* still false: a run in which end_game has been called by the end of an
\* iteration, the 1000th included, returns 0 and writes no diagnostic.
C1_FlagBeforeCeiling ==
    /\ status = <<1>> => ~game_ended
    /\ (pc = "exit" /\ game_ended) => (status = <<0>> /\ err = <<>>)

\* C2: when end_game is first called during cycle k < 1000, by the step or the
\* draw hook, main returns 0 after exactly k global_step and k global_draw
\* invocations and the diagnostic is never written.
C2_EndWithinCeiling ==
    (first_end.hook \in {"step", "draw"} /\ first_end.cycle < max_steps) =>
        /\ err = <<>>
        /\ steps = first_end.cycle
        /\ draws <= first_end.cycle
        /\ status # <<1>>
        /\ pc = "exit" => /\ status = <<0>>
                          /\ steps = first_end.cycle
                          /\ draws = first_end.cycle

C2_Witness ==
    /\ pc = "exit"
    /\ first_end.hook = "draw"
    /\ first_end.cycle = 3
    /\ status = <<0>>

\* C3: when end_game is never called, main returns 1 after exactly 1000
\* global_step and 1000 global_draw invocations, and the diagnostic is written
\* exactly once, after the 1000th draw has returned.
C3_NeverEnded ==
    end_calls = 0 =>
        /\ pc # "exit" => (err = <<>> /\ status = <<>>)
        /\ pc = "exit" => /\ status = <<1>>
                          /\ steps = max_steps
                          /\ draws = max_steps
                          /\ err = <<Diagnostic>>

C3_Witness ==
    /\ pc = "exit"
    /\ end_calls = 0
    /\ status = <<1>>

\* C4: the flag is false initially, only end_game changes it, it is true in
\* every state after a call of end_game, and a further end_game call leaves
\* the program state as it was.
C4_FlagMonotone ==
    /\ ~game_ended
    /\ [](game_ended <=> end_calls > 0)
    /\ [][/\ game_ended => game_ended'
          /\ game_ended' # game_ended => end_game
          /\ (end_game /\ game_ended) =>
                 UNCHANGED <<pc, game_ended, num_steps, status, out, err, ret>>]_vars

C4_Witness ==
    /\ end_calls = 2
    /\ game_ended
    /\ pc = "exit"

\* C5: global_create is invoked exactly once, before any global_step or
\* global_draw; afterwards every global_step is followed by one global_draw
\* before the next global_step; at the loop test and at termination num_steps
\* equals the number of step and of draw invocations.
C5_HookSequence ==
    /\ creates = (IF pc = "main" THEN 0 ELSE 1)
    /\ (steps > 0 \/ draws > 0) => creates = 1
    /\ pc = "step" => (steps = draws + 1 /\ num_steps = draws)
    /\ pc = "draw" => (steps = draws /\ num_steps = draws - 1)
    /\ pc \in {"main", "create"} => (steps = 0 /\ draws = 0)
    /\ pc \in {"test", "exit"} => (num_steps = steps /\ num_steps = draws)

C5_Witness ==
    /\ pc = "exit"
    /\ creates = 1
    /\ steps = 2
    /\ draws = 2

StubCall ==
    \/ load_sound
    \/ load_image
    \/ play_sound
    \/ loop_sound
    \/ set_sprite_position
    \/ draw_sprite

\* C6: load_sound and load_image return the null handle for every file name,
\* and no call of load_sound, load_image, play_sound, loop_sound,
\* set_sprite_position or draw_sprite, on any handle, changes the flag, the
\* step counter, either output stream or the driver's position and status.
C6_StubsInert ==
    /\ [](ret.op \in {"load_sound", "load_image"} => ret.val = NULL)
    /\ [][StubCall => UNCHANGED <<game_ended, num_steps, out, err, pc, status,
                                  steps, draws>>]_vars

C6_Witness ==
    /\ ret.op = "load_sound"
    /\ ret.val = NULL
    /\ pc = "draw"
    /\ steps = 2

\* C7: key_pressed returns false for every key code, whatever the flag and
\* the step counter are, and changes neither.
C7_KeyNeverPressed ==
    /\ [](ret.op = "key_pressed" => ret.val = FALSE)
    /\ [][key_pressed => UNCHANGED <<game_ended, num_steps>>]_vars

C7_Witness ==
    /\ ret.op = "key_pressed"
    /\ ret.val = FALSE
    /\ game_ended
    /\ num_steps = 1

\* C8 as stated: global_step and global_draw are each invoked at least once
\* before main terminates, also when the create hook calls end_game.
C8_AtLeastOneCycle ==
    pc = "exit" => (steps >= 1 /\ draws >= 1)

\* C8 amended: the flag is tested before every iteration, the first included.
\* When the create hook calls end_game main returns 0 with no diagnostic and
\* without invoking global_step or global_draw; in every other run each of
\* them is invoked at least once before main terminates.
C8_FlagTestedBeforeFirstCycle ==
    pc = "exit" =>
        IF first_end.hook = "create"
           THEN steps = 0 /\ draws = 0 /\ status = <<0>> /\ err = <<>>
           ELSE steps >= 1 /\ draws >= 1

C8_Witness ==
    /\ pc = "exit"
    /\ first_end.hook = "create"
    /\ steps = 0
    /\ draws = 0

\* C9: when the step hook of cycle k calls end_game, the draw hook of cycle k
\* is still invoked and num_steps is still incremented for cycle k, and after
\* cycle k neither global_step nor global_draw is invoked again.
C9_CycleCompletes ==
    first_end.hook = "step" =>
        /\ steps = first_end.cycle
        /\ pc \in {"step", "draw", "test", "exit"}
        /\ pc = "step" => draws = first_end.cycle - 1
        /\ pc # "step" => draws = first_end.cycle
        /\ pc \in {"test", "exit"} => num_steps = first_end.cycle

C9_Witness ==
    /\ pc = "exit"
    /\ first_end.hook = "step"
    /\ first_end.cycle = 3
    /\ draws = 3
    /\ num_steps = 3

\* C10: with hooks that return, 0 <= num_steps <= 1000 always, global_step
\* is never running with num_steps = 1000, and main eventually returns with
\* exactly one of the outcomes: 0, or 1 with the diagnostic.
C10_Terminates ==
    /\ [](/\ num_steps \in 0..max_steps
          /\ pc = "step" => num_steps < max_steps
          /\ pc = "exit" => \/ (status = <<0>> /\ err = <<>>)
                            \/ (status = <<1>> /\ err = <<Diagnostic>>)
          /\ pc # "exit" => status = <<>>)
    /\ <>(pc = "exit")

C10_Witness ==
    /\ pc = "exit"
    /\ num_steps = max_steps
    /\ err = <<Diagnostic>>

====
